---- MODULE Spec2Model ----
(***************************************************************************)
(* Delivery scheduler of insider-message-sender                            *)
(* (internal/scheduler/scheduler.go, internal/repository/message_repo.go). *)
(*                                                                         *)
(* Tasks of the model:                                                     *)
(*   - caller threads, which call Start(), Stop() and IsRunning();         *)
(*   - one polling loop (goroutine run()) per Start() that created a       *)
(*     context; the loop launched by the Start() that created context c    *)
(*     is loop c;                                                          *)
(*   - Delivery Units: the goroutines process() starts, one per fetched    *)
(*     message, unit <<l, k>> being the k-th unit of loop l's current pass.*)
(* A context is named by the number of the Start() that created it,        *)
(* 0 is the nil context of a freshly constructed Scheduler.                *)
(***************************************************************************)
EXTENDS Integers, FiniteSets, Sequences, TLC

\* ---- bounds of the model ------------------------------------------------
NumMsgs == 2
MaxDeliverable == 1
MaxCycles == 2
MaxTicks == 1
MaxFailures == 3
MaxStoreErrors == 1
AttemptsCap == 4
EntriesCap == 2
NumLiveMsgs == 3

\* ---- constants of the program --------------------------------------------
maxMessageLength == 160
maxRetries == 3
baseDelay == 1
fetchLimit == 2
StatusOK == 200
StatusCreated == 201
StatusAccepted == 202

MessageStatusPending == "pending"
MessageStatusSent == "sent"
MessageStatusFailed == "failed"

Msgs == 1..NumMsgs
Cycles == 1..MaxCycles
Slots == 1..fetchLimit
Units == Cycles \X Slots

\* what one POST to the delivery endpoint may yield: a transport error, or a
\* response with its status code and its body (carrying a messageId, carrying
\* none, or not parseable)
StatusCodes == {200, 201, 202, 500}
Bodies == {"id", "noid", "bad"}
Outcomes == [kind : {"transport"}] \cup [kind : {"http"}, code : StatusCodes, body : Bodies]

\* the endpoint accepted the message: a 200, 201 or 202 with a parseable body
Delivered(o) == o.kind = "http" /\ o.code \in {200, 201, 202} /\ o.body \in {"id", "noid"}

\* the contents of the store when the Scheduler is constructed: the length of
\* each message's content, at most MaxDeliverable of them within the limit
ContentLengths ==
    {f \in [Msgs -> {maxMessageLength, maxMessageLength + 1}] :
        Cardinality({m \in Msgs : f[m] <= maxMessageLength}) <= MaxDeliverable}

VARIABLES
    isRunning,      \* s.isRunning
    ctx,            \* s.ctx
    cancel,         \* s.cancel (the context it cancels)
    cancelled,      \* the contexts whose Done channel is closed
    cancelCalls,    \* number of invocations of a cancel handle
    ncycles,        \* number of contexts created so far
    mu,             \* s.mu: "unlocked", or the call that holds it
    startCalls,     \* number of Start() calls so far, modulo 2
    stopCalls,      \* number of Stop() calls so far, modulo 2
    lpc,            \* loop -> position in run()/process()
    lctx,           \* loop -> latest value of s.ctx its select has read
    ticker,         \* loop -> "off" | "on" | "tick" (a tick is buffered in ticker.C)
    nticks,         \* ticks the tickers have fired so far
    upc,            \* unit -> position in sendMessage
    umsg,           \* unit -> the message it was started for
    uctx,           \* unit -> the ctx argument of sendMessage
    uatt,           \* unit -> attempt index of the for loop
    uwaited,        \* unit -> backoff delay waited out so far
    contentLen,     \* message -> len(m.Content)
    status,         \* message -> status column
    sentAt,         \* message -> sent_at column is not NULL
    attempts,       \* message -> calls of sendMessageWithRetry made for it
    gotAccepted,    \* message -> some attempt got a 200/201/202 with a parseable body
    gotID,          \* message -> some such attempt's body carried a messageId
    everSent,       \* message -> its status has been sent at some time
    sentWriteFailed,\* message -> some MarkAsSent for it returned an error
    storeWritten,   \* message -> a MarkAsSent/MarkAsFailed call was issued for it
    cacheEntries,   \* message -> cache.Set calls that stored an entry
    cacheWrites,    \* message -> cache.Set calls issued
    nfailures,      \* calls of the endpoint that failed or were rejected so far
    nstoreErrors    \* calls of the store that returned an error so far

lifecycle == <<isRunning, ctx, cancel, cancelled, cancelCalls, ncycles, mu>>
calls == <<startCalls, stopCalls>>
loops == <<lpc, lctx, ticker, nticks>>
units == <<upc, umsg, uctx, uatt, uwaited>>
store == <<contentLen, status, sentAt>>
history == <<attempts, gotAccepted, gotID, everSent, sentWriteFailed, storeWritten, cacheEntries, cacheWrites>>
faults == <<nfailures, nstoreErrors>>
vars == <<lifecycle, calls, loops, units, store, history, faults>>

Init ==
    /\ isRunning = FALSE
    /\ ctx = 0
    /\ cancel = 0
    /\ cancelled = {}
    /\ cancelCalls = 0
    /\ ncycles = 0
    /\ mu = "unlocked"
    /\ startCalls = 0
    /\ stopCalls = 0
    /\ lpc = [l \in Cycles |-> "none"]
    /\ lctx = [l \in Cycles |-> 0]
    /\ ticker = [l \in Cycles |-> "off"]
    /\ nticks = 0
    /\ upc = [u \in Units |-> "idle"]
    /\ umsg = [u \in Units |-> 0]
    /\ uctx = [u \in Units |-> 0]
    /\ uatt = [u \in Units |-> 0]
    /\ uwaited = [u \in Units |-> 0]
    /\ contentLen \in ContentLengths
    /\ status = [m \in Msgs |-> MessageStatusPending]
    /\ sentAt = [m \in Msgs |-> FALSE]
    /\ attempts = [m \in Msgs |-> 0]
    /\ gotAccepted = [m \in Msgs |-> FALSE]
    /\ gotID = [m \in Msgs |-> FALSE]
    /\ everSent = [m \in Msgs |-> FALSE]
    /\ sentWriteFailed = [m \in Msgs |-> FALSE]
    /\ storeWritten = [m \in Msgs |-> FALSE]
    /\ cacheEntries = [m \in Msgs |-> 0]
    /\ cacheWrites = [m \in Msgs |-> 0]
    /\ nfailures = 0
    /\ nstoreErrors = 0

Min(a, b) == IF a < b THEN a ELSE b
Max(a, b) == IF a > b THEN a ELSE b

\* a counter of the history, which stops counting at cap
Count(n, cap) == Min(n + 1, cap)

\* ==== Start / Stop / IsRunning =============================================
\* s.mu makes the part of a call between Lock and Unlock one step, which
\* needs the mutex unlocked and leaves it as the call's Unlock does. The
\* go s.run() that follows the Unlock of Start is part of the same step: a
\* goroutine that is launched late is a goroutine that takes its first step
\* late.

\* run() begins in its select
RunEntryAtSelect == "blocked"

\* run() begins with s.process()
RunEntry == "process"

\* Start without its test of s.isRunning
StartNeverRunning == FALSE

\* the test of Start: if s.isRunning
StartAlreadyRunning == isRunning

\* Start(): if s.isRunning { return nil }; s.ctx, s.cancel =
\* context.WithCancel(...); s.isRunning = true; go s.run(); return nil
Start ==
    /\ mu = "unlocked"
    /\ startCalls' = 1 - startCalls
    /\ IF StartAlreadyRunning
         THEN UNCHANGED <<lifecycle, loops>>
         ELSE /\ ncycles < MaxCycles
              /\ ncycles' = ncycles + 1
              /\ ctx' = ncycles + 1
              /\ cancel' = ncycles + 1
              /\ isRunning' = TRUE
              /\ mu' = "unlocked"
              /\ lpc' = [lpc EXCEPT ![ncycles + 1] = RunEntry]
              /\ UNCHANGED <<cancelled, cancelCalls>>
              /\ UNCHANGED <<lctx, ticker, nticks>>
    /\ UNCHANGED stopCalls
    /\ UNCHANGED <<units, store, history, faults>>

\* Stop returns with s.mu still held
StopKeepsLock == "Stop"

\* defer s.mu.Unlock() of Stop: the state of s.mu when Stop has returned
StopUnlock == "unlocked"

\* Stop without its test of s.isRunning
StopAlwaysCancels == FALSE

\* Stop leaves the run flag set
IsRunningKeptByStop == TRUE

\* s.isRunning = false of Stop
IsRunningAfterStop == FALSE

\* the test of Stop: if !s.isRunning
StopNotRunning == ~isRunning

\* closing the Done channel of c wakes every select blocked on it, which
\* takes its case <-ctx.Done() and returns: the select of run() (with its
\* deferred ticker.Stop()) and the backoff select of sendMessage
WakesLoop(l, c) == lpc[l] = "blocked" /\ lctx[l] = c
WakesUnit(u, c) == upc[u] = "backoff" /\ uctx[u] = c

\* Stop(): if !s.isRunning { return nil }; s.cancel(); s.isRunning = false;
\* return nil
Stop ==
    /\ mu = "unlocked"
    /\ stopCalls' = 1 - stopCalls
    /\ IF StopNotRunning
         THEN UNCHANGED <<lifecycle, loops, units>>
         ELSE /\ cancel # 0
              /\ cancelled' = cancelled \cup {cancel}
              /\ cancelCalls' = cancelCalls + 1
              /\ isRunning' = IsRunningAfterStop
              /\ mu' = StopUnlock
              /\ lpc' = [l \in Cycles |-> IF WakesLoop(l, cancel) THEN "exited" ELSE lpc[l]]
              /\ ticker' = [l \in Cycles |-> IF WakesLoop(l, cancel) THEN "off" ELSE ticker[l]]
              /\ upc' = [u \in Units |-> IF WakesUnit(u, cancel) THEN "abandoned" ELSE upc[u]]
              /\ uctx' = [u \in Units |-> IF WakesUnit(u, cancel) THEN 0 ELSE uctx[u]]
              /\ uatt' = [u \in Units |-> IF WakesUnit(u, cancel) THEN 0 ELSE uatt[u]]
              /\ uwaited' = [u \in Units |-> IF WakesUnit(u, cancel) THEN 0 ELSE uwaited[u]]
              /\ UNCHANGED <<ctx, cancel, ncycles>>
              /\ UNCHANGED <<lctx, nticks>>
              /\ UNCHANGED umsg
    /\ UNCHANGED startCalls
    /\ UNCHANGED <<store, history, faults>>

\* IsRunning(): return s.isRunning
IsRunning == isRunning

\* ==== the store (MessageRepository) ========================================

\* the rows of the messages table are the domain of the status column
PendingMsgs == {m \in DOMAIN status : status[m] = MessageStatusPending}

\* SELECT ... WHERE status = 'pending' LIMIT limit: the possible result sets
FetchUnsent(limit) ==
    {S \in SUBSET PendingMsgs : Cardinality(S) = Min(limit, Cardinality(PendingMsgs))}

\* the rows of a result set as the slice process() ranges over
RECURSIVE Rows(_)
Rows(S) ==
    IF S = {} THEN <<>>
    ELSE LET m == CHOOSE x \in S : \A y \in S : x <= y
         IN <<m>> \o Rows(S \ {m})

\* UPDATE messages SET status='sent', sent_at=now WHERE id=$3
StatusAfterMarkAsSent(st, id) == [st EXCEPT ![id] = MessageStatusSent]

\* UPDATE messages SET status='failed', sent_at=now WHERE id=$3
StatusAfterMarkAsFailed(st, id) == [st EXCEPT ![id] = MessageStatusFailed]

\* s.repo.MarkAsSent(m.ID); err: the Exec returned an error
MarkAsSent(m, err) ==
    /\ err => nstoreErrors < MaxStoreErrors
    /\ nstoreErrors' = IF err THEN nstoreErrors + 1 ELSE nstoreErrors
    /\ status' = IF err THEN status ELSE StatusAfterMarkAsSent(status, m)
    /\ sentAt' = IF err THEN sentAt ELSE [sentAt EXCEPT ![m] = TRUE]
    /\ everSent' = [everSent EXCEPT ![m] = @ \/ (status'[m] = MessageStatusSent)]
    /\ sentWriteFailed' = [sentWriteFailed EXCEPT ![m] = @ \/ err]
    /\ storeWritten' = [storeWritten EXCEPT ![m] = TRUE]
    /\ UNCHANGED contentLen

\* the UPDATE of MarkAsFailed without its sent_at=$2
SentAtKeptByMarkAsFailed(sa, id) == sa

\* UPDATE messages SET status='failed', sent_at=now WHERE id=$3: the sent_at
\* column after it
SentAtAfterMarkAsFailed(sa, id) == [sa EXCEPT ![id] = TRUE]

\* s.repo.MarkAsFailed(m.ID); err: the Exec returned an error
MarkAsFailed(m, err) ==
    /\ err => nstoreErrors < MaxStoreErrors
    /\ nstoreErrors' = IF err THEN nstoreErrors + 1 ELSE nstoreErrors
    /\ status' = IF err THEN status ELSE StatusAfterMarkAsFailed(status, m)
    /\ sentAt' = IF err THEN sentAt ELSE SentAtAfterMarkAsFailed(sentAt, m)
    /\ storeWritten' = [storeWritten EXCEPT ![m] = TRUE]
    /\ UNCHANGED <<contentLen, everSent, sentWriteFailed>>

NoStoreWrite == UNCHANGED <<store, everSent, sentWriteFailed, storeWritten, nstoreErrors>>

\* ==== run() and process() ==================================================

\* s.ctx is read by run() and by the goroutines of process() without s.mu,
\* concurrently with the write of Start(): a read yields the value of any
\* write not older than the latest one the reading loop has already seen
RacyCtx(l) == {c \in Cycles : Max(l, lctx[l]) <= c /\ c <= ctx}

Terminal == {"skipped", "succeeded", "failed", "abandoned"}
UnitsOf(l) == {u \in Units : u[1] = l}
InFlight == {u \in Units : upc[u] \notin Terminal \cup {"idle"}}
ActiveLoops == {l \in Cycles : lpc[l] \in {"process", "join", "blocked"}}

\* the rows of the result set are spawned although the fetch failed
FetchedDespiteError(S, err) == Rows(S)

\* msgs, err := s.repo.FetchUnsent(2): FetchUnsent returns nil with an error,
\* and process() returns on it before it ranges over msgs
Fetched(S, err) == IF err THEN <<>> ELSE Rows(S)

\* msgs, err := FetchUnsent(2); if err != nil { return };
\* for _, m := range msgs { wg.Add(1); go func(msg) ... }
ProcessFetch(l) ==
    /\ lpc[l] = "process"
    /\ \E S \in FetchUnsent(fetchLimit), err \in BOOLEAN :
         LET rows == Fetched(S, err) IN
         /\ err => nstoreErrors < MaxStoreErrors
         /\ nstoreErrors' = IF err THEN nstoreErrors + 1 ELSE nstoreErrors
         /\ upc' = [u \in Units |->
                      IF u[1] = l /\ u[2] <= Len(rows) THEN "spawned" ELSE upc[u]]
         /\ umsg' = [u \in Units |->
                      IF u[1] = l /\ u[2] <= Len(rows) THEN rows[u[2]] ELSE umsg[u]]
    /\ lpc' = [lpc EXCEPT ![l] = "join"]
    /\ UNCHANGED <<uctx, uatt, uwaited>>
    /\ UNCHANGED <<lctx, ticker, nticks>>
    /\ UNCHANGED <<lifecycle, calls, store, history, nfailures>>

\* process() returns without waiting for its goroutines
JoinDetached(l) == TRUE

\* a unit that skips its message returns without wg.Done()
JoinMissesSkipped(l) ==
    \A u \in UnitsOf(l) : upc[u] \in {"succeeded", "failed", "abandoned", "idle"}

\* wg.Wait() returns once every goroutine of the pass has called wg.Done()
JoinReady(l) == \A u \in UnitsOf(l) : upc[u] \in Terminal \cup {"idle"}

\* process() returns to run(): after wg.Wait(), or at once when FetchUnsent
\* returned an error (no unit was started)
ProcessReturns(l) ==
    /\ lpc[l] = "join"
    /\ JoinReady(l)
    /\ upc' = [u \in Units |-> IF u[1] = l THEN "idle" ELSE upc[u]]
    /\ umsg' = [u \in Units |-> IF u[1] = l THEN 0 ELSE umsg[u]]
    /\ uctx' = [u \in Units |-> IF u[1] = l THEN 0 ELSE uctx[u]]
    /\ uatt' = [u \in Units |-> IF u[1] = l THEN 0 ELSE uatt[u]]
    /\ uwaited' = [u \in Units |-> IF u[1] = l THEN 0 ELSE uwaited[u]]
    /\ UNCHANGED nstoreErrors

\* the select of run() takes its Done case whatever the context
LoopCancelledAlways(c) == TRUE

\* case <-s.ctx.Done() of run()'s select is ready: the context read is cancelled
LoopCancelled(c) == c \in cancelled

\* process() returns and the select of run() finds no case ready and blocks;
\* before its first select run() creates the ticker
SelectBlock(l) ==
    /\ ProcessReturns(l)
    /\ ticker[l] # "tick"
    /\ \E c \in RacyCtx(l) :
         /\ ~LoopCancelled(c)
         /\ lctx' = [lctx EXCEPT ![l] = c]
    /\ lpc' = [lpc EXCEPT ![l] = "blocked"]
    /\ ticker' = [ticker EXCEPT ![l] = "on"]
    /\ UNCHANGED nticks
    /\ UNCHANGED <<lifecycle, calls, store, history, nfailures>>

\* process() returns and the select takes case <-ticker.C: s.process() (alone
\* ready, or chosen among the ready cases); the tick was buffered during the
\* pass, or it fired between time.NewTicker and the first select
SelectTick(l) ==
    /\ ProcessReturns(l)
    /\ \/ /\ ticker[l] = "tick"
          /\ UNCHANGED nticks
       \/ /\ ticker[l] = "off"
          /\ nticks < MaxTicks
          /\ nticks' = nticks + 1
    /\ \E c \in RacyCtx(l) : lctx' = [lctx EXCEPT ![l] = c]
    /\ ticker' = [ticker EXCEPT ![l] = "on"]
    /\ lpc' = [lpc EXCEPT ![l] = "process"]
    /\ UNCHANGED <<lifecycle, calls, store, history, nfailures>>

\* process() returns and the select takes case <-s.ctx.Done(): return (alone
\* ready, or chosen among the ready cases); the deferred ticker.Stop() included
SelectDone(l) ==
    /\ ProcessReturns(l)
    /\ \E c \in RacyCtx(l) :
         /\ LoopCancelled(c)
         /\ lctx' = [lctx EXCEPT ![l] = c]
    /\ lpc' = [lpc EXCEPT ![l] = "exited"]
    /\ ticker' = [ticker EXCEPT ![l] = "off"]
    /\ UNCHANGED nticks
    /\ UNCHANGED <<lifecycle, calls, store, history, nfailures>>

\* the ticker of a live loop fires: the tick wakes the loop when it is blocked
\* in its select (case <-ticker.C: s.process()), else it is buffered in
\* ticker.C
Tick(l) ==
    /\ ticker[l] = "on"
    /\ nticks < MaxTicks
    /\ nticks' = nticks + 1
    /\ IF lpc[l] = "blocked"
         THEN /\ lpc' = [lpc EXCEPT ![l] = "process"]
              /\ UNCHANGED ticker
         ELSE /\ ticker' = [ticker EXCEPT ![l] = "tick"]
              /\ UNCHANGED lpc
    /\ UNCHANGED lctx
    /\ UNCHANGED <<lifecycle, calls, units, store, history, faults>>

\* ==== sendMessage and sendMessageWithRetry ================================

\* the length test off by one
TooLongOffByOne(m) == contentLen[m] > maxMessageLength + 1

\* if len(m.Content) > maxMessageLength
TooLong(m) == contentLen[m] > maxMessageLength

\* the status test without an upper bound
IsAtLeastOK(code) == code >= StatusOK

\* resp.StatusCode == StatusOK || ... == StatusCreated || ... == StatusAccepted
IsAcceptedStatus(code) == code = StatusOK \/ code = StatusCreated \/ code = StatusAccepted

\* the body is taken without being decoded
ParseableAlways(body) == TRUE

\* json.NewDecoder(resp.Body).Decode(&respData) returns no error
Parseable(body) == body # "bad"

\* the messageId of the response is never seen
HasMessageIDNever(body) == FALSE

\* respData.MessageID != ""
HasMessageID(body) == body = "id"

\* the branch of sendMessageWithRetry that returns true
AttemptSucceeds(o) == o.kind = "http" /\ IsAcceptedStatus(o.code) /\ Parseable(o.body)

\* the last-attempt test one attempt late
IsAfterLastAttempt(attempt) == attempt = maxRetries

\* if attempt == maxRetries-1
IsLastAttempt(attempt) == attempt = maxRetries - 1

\* delay := baseDelay * time.Duration(1<<attempt)
Delay(attempt) == baseDelay * (2 ^ attempt)

\* case <-ctx.Done() of the backoff select is ready when the select is entered
BackoffCancelled(c) == c \in cancelled

\* a unit leaves the attempt loop: its locals are gone
Ended(u, pc) ==
    /\ upc' = [upc EXCEPT ![u] = pc]
    /\ uatt' = [uatt EXCEPT ![u] = 0]
    /\ uwaited' = [uwaited EXCEPT ![u] = 0]

\* sendMessageWithRetry returned false: mark the message failed after the
\* last attempt, else enter the backoff select (which returns at once when
\* the context is already cancelled)
FailAttempt(u, c) ==
    IF IsLastAttempt(uatt[u])
      THEN /\ \E err \in BOOLEAN : MarkAsFailed(umsg[u], err)
           /\ Ended(u, "failed")
      ELSE /\ NoStoreWrite
           /\ IF BackoffCancelled(c)
                THEN Ended(u, "abandoned")
                ELSE /\ upc' = [upc EXCEPT ![u] = "backoff"]
                     /\ UNCHANGED <<uatt, uwaited>>

\* sendMessageWithRetry is called and s.client.Do(req) starts; with a context
\* that is already cancelled Do returns the context's error at once
IssueAttempt(u, c) ==
    /\ attempts' = [attempts EXCEPT ![umsg[u]] = Count(@, AttemptsCap)]
    /\ IF c \in cancelled
         THEN FailAttempt(u, c)
         ELSE /\ upc' = [upc EXCEPT ![u] = "calling"]
              /\ UNCHANGED <<uatt, uwaited>>
              /\ NoStoreWrite

\* go func(msg) { s.sendMessage(s.ctx, msg) }: the goroutine reads s.ctx;
\* sendMessage returns at once for a message that is too long, else it makes
\* its first call of sendMessageWithRetry
UnitBegin(u) ==
    /\ upc[u] = "spawned"
    /\ \E c \in RacyCtx(u[1]) :
         /\ IF TooLong(umsg[u])
              THEN /\ Ended(u, "skipped")
                   /\ NoStoreWrite
                   /\ UNCHANGED attempts
              ELSE IssueAttempt(u, c)
         /\ uctx' = [uctx EXCEPT ![u] = IF upc'[u] \in Terminal THEN 0 ELSE c]
    /\ UNCHANGED umsg
    /\ UNCHANGED <<gotAccepted, gotID, cacheEntries, cacheWrites, nfailures>>
    /\ UNCHANGED <<lifecycle, calls, loops>>

\* the accepted attempt returns without the cache write
SuccessEndSkipsCache(body) == "succeeded"

\* after MarkAsSent, whose error is logged only: if respData.MessageID != ""
\* { s.cache.Set(...) }; return true
SuccessEnd(body) == IF HasMessageID(body) THEN "cache" ELSE "succeeded"

\* s.client.Do(req) returns and the rest of sendMessageWithRetry runs up to
\* the cache write; an accepted, parseable response marks the message sent
Response(u, o) ==
    /\ upc[u] = "calling"
    /\ ~Delivered(o) => nfailures < MaxFailures
    /\ nfailures' = IF Delivered(o) THEN nfailures ELSE nfailures + 1
    /\ gotAccepted' = [gotAccepted EXCEPT ![umsg[u]] = @ \/ Delivered(o)]
    /\ gotID' = [gotID EXCEPT ![umsg[u]] = @ \/ (Delivered(o) /\ o.body = "id")]
    /\ IF AttemptSucceeds(o)
         THEN /\ \E err \in BOOLEAN : MarkAsSent(umsg[u], err)
              /\ Ended(u, SuccessEnd(o.body))
         ELSE FailAttempt(u, uctx[u])
    /\ uctx' = [uctx EXCEPT ![u] = IF upc'[u] \in Terminal THEN 0 ELSE @]
    /\ UNCHANGED umsg
    /\ UNCHANGED <<attempts, cacheEntries, cacheWrites>>
    /\ UNCHANGED <<lifecycle, calls, loops>>

\* the endpoint's answer to the POST of unit u is any of the outcomes
UnitResponse(u) == \E o \in Outcomes : Response(u, o)

\* an error of cache.Set makes the attempt a failed one
CacheEndFailsOnError(err) == IF err THEN "failed" ELSE "succeeded"

\* if err := s.cache.Set(...); err != nil { log.Printf(...) } else { ... };
\* return true: the error is logged only
CacheEnd(err) == "succeeded"

\* s.cache.Set(ctx, cacheKey, cacheVal, 0), which fails when ctx is cancelled;
\* return true
UnitCache(u) ==
    /\ upc[u] = "cache"
    /\ \E err \in BOOLEAN :
         /\ uctx[u] \in cancelled => err
         /\ cacheEntries' = [cacheEntries EXCEPT ![umsg[u]] =
                               IF err THEN @ ELSE Count(@, EntriesCap)]
         /\ upc' = [upc EXCEPT ![u] = CacheEnd(err)]
    /\ cacheWrites' = [cacheWrites EXCEPT ![umsg[u]] = Count(@, EntriesCap)]
    /\ uctx' = [uctx EXCEPT ![u] = 0]
    /\ UNCHANGED <<umsg, uatt, uwaited>>
    /\ UNCHANGED <<attempts, gotAccepted, gotID, everSent, sentWriteFailed, storeWritten>>
    /\ UNCHANGED <<lifecycle, calls, loops, store, faults>>

\* the for loop skips an attempt index
NextAttemptSkips(attempt) == attempt + 2

\* attempt++ of for attempt := 0; attempt < maxRetries; attempt++
NextAttempt(attempt) == attempt + 1

\* case <-time.After(delay): the for loop goes to the next attempt and calls
\* sendMessageWithRetry (the context of a unit still blocked in its backoff
\* is not cancelled)
BackoffElapsed(u) ==
    /\ upc[u] = "backoff"
    /\ uwaited' = [uwaited EXCEPT ![u] = @ + Delay(uatt[u])]
    /\ uatt' = [uatt EXCEPT ![u] = NextAttempt(@)]
    /\ upc' = [upc EXCEPT ![u] = "calling"]
    /\ attempts' = [attempts EXCEPT ![umsg[u]] = Count(@, AttemptsCap)]
    /\ UNCHANGED <<umsg, uctx>>
    /\ UNCHANGED <<gotAccepted, gotID, everSent, sentWriteFailed, storeWritten, cacheEntries, cacheWrites>>
    /\ UNCHANGED <<lifecycle, calls, loops, store, faults>>

\* ==== the system ===========================================================

Next ==
    \/ Start
    \/ Stop
    \/ \E l \in Cycles : ProcessFetch(l)
    \/ \E l \in Cycles : SelectBlock(l)
    \/ \E l \in Cycles : SelectTick(l)
    \/ \E l \in Cycles : SelectDone(l)
    \/ \E l \in Cycles : Tick(l)
    \/ \E u \in Units : UnitBegin(u)
    \/ \E u \in Units : UnitResponse(u)
    \/ \E u \in Units : UnitCache(u)
    \/ \E u \in Units : BackoffElapsed(u)

Spec == Init /\ [][Next]_vars

\* ==== the claims ===========================================================

Launched == {l \in Cycles : lpc[l] # "none"}

\* C1 (as claimed): in every reachable state at most one polling loop (run
\* goroutine) is active.
C1_AtMostOneLoop == Cardinality(ActiveLoops) <= 1

\* C2: as long as no Stop() has cancelled a cycle, all the Start() calls made
\* have created one context and launched one polling loop between them (the
\* first of them did, every other was a no-op), and IsRunning() returns true
\* from the first Start() on.
C2_ConcurrentStart ==
    [][/\ startCalls' # startCalls => (ncycles' >= 1 /\ IsRunning')
       /\ cancelCalls' = 0 =>
            /\ ncycles' <= 1
            /\ Cardinality(Launched') = ncycles'
            /\ ncycles' = 1 => IsRunning']_vars

\* two Start() calls have been made on the stopped scheduler and no Stop()
C2_Witness ==
    /\ startCalls = 0
    /\ stopCalls = 0
    /\ ncycles = 1
    /\ cancelCalls = 0
    /\ IsRunning

\* C3 (as claimed): the context of a running cycle is not cancelled, and the
\* loop and the Delivery Units of a cycle only ever observe that cycle's
\* context, never the context of a later cycle.
C3_PriorCycleKeepsItsContext ==
    /\ isRunning => ctx \notin cancelled
    /\ \A l \in Cycles : lctx[l] \in {0, l}
    /\ \A u \in Units : uctx[u] \in {0, u[1]}

\* C4: a Start() call on a Running scheduler and a Stop() call on a Stopped
\* one (before any Start() too) change nothing: not the run flag, not the
\* context or the cancel handle, not the loops, and no cancel handle is invoked.
C4_RedundantCallIsNoop ==
    [][/\ (startCalls' # startCalls /\ isRunning) => UNCHANGED <<lifecycle, loops, units>>
       /\ (stopCalls' # stopCalls /\ ~isRunning) => UNCHANGED <<lifecycle, loops, units>>]_vars

\* a redundant Start() and a redundant Stop() have both been made: an even
\* number of calls of each, one context created, one cancellation
C4_Witness ==
    /\ startCalls = 0
    /\ stopCalls = 0
    /\ ncycles = 1
    /\ cancelCalls = 1
    /\ ~isRunning

\* C5 (as claimed): no fetch is issued while a Delivery Unit of an earlier pass
\* is unfinished, and at most one batch-width (2) of units is in flight.
C5_OneBatchInFlight ==
    [][/\ \A l \in Cycles : (lpc[l] = "process" /\ lpc'[l] = "join") => InFlight = {}
       /\ Cardinality(InFlight') <= fetchLimit]_vars

\* C6 (as claimed): once a message is sent or failed, no store write changes
\* its status again.
C6_StatusChangesOnce ==
    [][\A m \in Msgs : status[m] # MessageStatusPending => status'[m] = status[m]]_vars

\* C7 (as claimed): a message reaches status sent if and only if an attempt
\* for it was accepted (200/201/202) with a parseable body.
C7_SentIffAccepted == \A m \in Msgs : everSent[m] <=> gotAccepted[m]

\* C7 (amended): a message reaches status sent only if an attempt for it was
\* accepted with a parseable body, and it does reach it after such an attempt
\* unless the MarkAsSent write returned an error.
C7_SentIffAcceptedAndWritten ==
    \A m \in Msgs :
        /\ everSent[m] => gotAccepted[m]
        /\ (gotAccepted[m] /\ ~sentWriteFailed[m]) => everSent[m]

\* a message is sent, and one was accepted but its MarkAsSent failed
C7_Witness == \E m \in Msgs : status[m] = MessageStatusSent /\ gotAccepted[m]

\* C8 (as claimed): a unit marks its message failed only after its 3 attempts
\* failed with its context not cancelled: a unit whose context is cancelled
\* before it finishes never marks its message failed.
C8_NoFailedAfterCancel ==
    [][\A u \in Units :
         (upc[u] = "calling" /\ upc'[u] = "failed") =>
            (IsLastAttempt(uatt[u]) /\ uctx[u] \notin cancelled)]_vars

\* C9 (as claimed): a unit whose context is cancelled while it waits out a
\* backoff ends without a further attempt and without a store write, and its
\* message is still pending when it ends.
C9_CancelledBackoffLeavesPending ==
    [][\A u \in Units :
         (upc[u] = "backoff" /\ uctx[u] \in cancelled') =>
            /\ upc'[u] = "abandoned"
            /\ attempts'[umsg[u]] = attempts[umsg[u]]
            /\ status' = status
            /\ status[umsg[u]] = MessageStatusPending]_vars

\* C10: for a message whose content is longer than 160, no delivery attempt is
\* made, no store or cache write is issued, and its status stays pending.
C10_TooLongIsNeverAttempted ==
    \A m \in Msgs :
        contentLen[m] > 160 =>
            /\ attempts[m] = 0
            /\ status[m] = MessageStatusPending
            /\ ~sentAt[m]
            /\ ~storeWritten[m]
            /\ cacheEntries[m] = 0
            /\ cacheWrites[m] = 0
            /\ \A u \in Units : umsg[u] = m => upc[u] \in {"spawned", "skipped"}

\* a unit was started for a message that is too long, and has skipped it
C10_Witness == \E u \in Units : upc[u] = "skipped" /\ contentLen[umsg[u]] > 160

\* C11 (as claimed): the number of delivery attempts ever made for a message,
\* over all passes and run cycles, is at most 3.
C11_AtMostThreeAttemptsEver == \A m \in Msgs : attempts[m] <= maxRetries

\* C11 (amended): one Delivery Unit makes at most 3 attempts for its message
\* (its attempt index stays below maxRetries); a message that is still pending
\* when its unit ends is attempted again by the unit of a later pass.
C11_AtMostThreeAttemptsPerUnit ==
    \A u \in Units :
        /\ uatt[u] < maxRetries
        /\ upc[u] \in {"calling", "backoff"} => attempts[umsg[u]] >= uatt[u] + 1

\* a unit is in its third attempt
C11_Witness == \E u \in Units : upc[u] = "calling" /\ uatt[u] = maxRetries - 1

\* C12 (as claimed): a unit whose 3 attempts are all rejected has waited the
\* backoff delays base, 2*base and 4*base, 7*base in all, when it marks its
\* message failed.
C12_SevenBaseBeforeFailed ==
    [][\A u \in Units :
         (upc[u] = "calling" /\ upc'[u] = "failed") => uwaited[u] = 7 * baseDelay]_vars

\* the endpoint accepts, with a body that cannot be parsed / with a parseable
\* body that carries a messageId
AcceptedUnparseable(o) == o.kind = "http" /\ o.code \in {200, 201, 202} /\ o.body = "bad"
AcceptedWithID(o) == o.kind = "http" /\ o.code \in {200, 201, 202} /\ o.body = "id"
AcceptedOutcomes == {o \in Outcomes : AcceptedUnparseable(o) \/ AcceptedWithID(o)}

\* C13 (as claimed): an accepted response with an unparseable body is a failed
\* attempt, which is followed by backoff and retry, and a retry that is
\* accepted with a parseable body carrying an id makes the message sent.
C13_RetryAfterUnparseableSends ==
    [][\A u \in {x \in Units : upc[x] = "calling" /\ upc'[x] # "calling"} :
       \A o \in AcceptedOutcomes :
         Response(u, o) =>
            /\ AcceptedUnparseable(o) => upc'[u] = "backoff"
            /\ (AcceptedWithID(o) /\ uatt[u] >= 1) => status'[umsg[u]] = MessageStatusSent]_vars

\* C13 (amended): an accepted response with an unparseable body is a failed
\* attempt: no markSent, no cache write, the unit does not succeed; it is
\* followed by the backoff unless it was the unit's last attempt (the message
\* is then marked failed) or the context is cancelled (the unit ends). A
\* retry accepted with a parseable body carrying an id calls MarkAsSent once,
\* which makes the message sent unless the write fails, and goes on to one
\* cache write.
C13_UnparseableIsAFailedAttempt ==
    [][\A u \in {x \in Units : upc[x] = "calling" /\ upc'[x] # "calling"} :
       \A o \in AcceptedOutcomes :
         Response(u, o) =>
            /\ AcceptedUnparseable(o) =>
                 /\ everSent' = everSent
                 /\ sentWriteFailed' = sentWriteFailed
                 /\ cacheEntries' = cacheEntries
                 /\ upc'[u] \notin {"cache", "succeeded"}
                 /\ IF uatt[u] = maxRetries - 1
                      THEN upc'[u] = "failed"
                      ELSE /\ upc'[u] = IF uctx[u] \in cancelled THEN "abandoned" ELSE "backoff"
                           /\ status' = status
                           /\ storeWritten' = storeWritten
            /\ (AcceptedWithID(o) /\ uatt[u] >= 1) =>
                 /\ upc'[u] = "cache"
                 /\ storeWritten'[umsg[u]]
                 /\ \/ status'[umsg[u]] = MessageStatusSent
                    \/ nstoreErrors' = nstoreErrors + 1 /\ status' = status
                 /\ cacheEntries' = cacheEntries]_vars

\* a message was sent by a retry, after a failed attempt, with one cache entry
C13_Witness ==
    \E m \in Msgs :
        /\ status[m] = MessageStatusSent
        /\ attempts[m] = 2
        /\ nfailures = 1
        /\ cacheEntries[m] = 1

\* ==== a pass over a full batch ==============================================
\* The store holds two messages that are both within the length limit. The
\* Scheduler has been through one run cycle before, whose only pass was
\* skipped because FetchUnsent returned an error: Start(), the fetch error,
\* the select, Stop().
InitBatch ==
    /\ isRunning = FALSE
    /\ ctx = 1
    /\ cancel = 1
    /\ cancelled = {1}
    /\ cancelCalls = 1
    /\ ncycles = 1
    /\ mu = "unlocked"
    /\ startCalls = 1
    /\ stopCalls = 1
    /\ lpc = [l \in Cycles |-> IF l = 1 THEN "exited" ELSE "none"]
    /\ lctx = [l \in Cycles |-> IF l = 1 THEN 1 ELSE 0]
    /\ ticker = [l \in Cycles |-> "off"]
    /\ nticks = 0
    /\ upc = [u \in Units |-> "idle"]
    /\ umsg = [u \in Units |-> 0]
    /\ uctx = [u \in Units |-> 0]
    /\ uatt = [u \in Units |-> 0]
    /\ uwaited = [u \in Units |-> 0]
    /\ contentLen = [m \in Msgs |-> maxMessageLength]
    /\ status = [m \in Msgs |-> MessageStatusPending]
    /\ sentAt = [m \in Msgs |-> FALSE]
    /\ attempts = [m \in Msgs |-> 0]
    /\ gotAccepted = [m \in Msgs |-> FALSE]
    /\ gotID = [m \in Msgs |-> FALSE]
    /\ everSent = [m \in Msgs |-> FALSE]
    /\ sentWriteFailed = [m \in Msgs |-> FALSE]
    /\ storeWritten = [m \in Msgs |-> FALSE]
    /\ cacheEntries = [m \in Msgs |-> 0]
    /\ cacheWrites = [m \in Msgs |-> 0]
    /\ nfailures = 0
    /\ nstoreErrors = 1

SpecBatch == InitBatch /\ [][Next]_vars

\* the join of loop l's pass over a full batch is complete
BatchJoined(l) ==
    /\ lpc[l] = "join"
    /\ \A u \in UnitsOf(l) : upc[u] \in Terminal

\* the one attempt made for m was accepted with a body carrying a messageId
AcceptedAtOnceWithID(m) == attempts[m] = 1 /\ gotID[m]

\* C14 (as claimed): when every message of a batch is accepted on its first
\* attempt with a messageId, at the end of the pass every message of the batch
\* is sent and has exactly one cache entry.
C14_BatchSentAndCached ==
    \A l \in Cycles :
        (BatchJoined(l) /\ \A u \in UnitsOf(l) : AcceptedAtOnceWithID(umsg[u])) =>
            \A u \in UnitsOf(l) :
                /\ status[umsg[u]] = MessageStatusSent
                /\ cacheEntries[umsg[u]] = 1

\* C14 (amended): when every message of a batch is accepted on its first
\* attempt with a messageId, at the end of the pass every unit has succeeded,
\* every message is sent unless its MarkAsSent failed, one cache write per
\* message was issued, leaving one entry unless the write failed; and a unit
\* whose first attempt was accepted is never in a backoff.
C14_BatchSentAndCacheWritten ==
    /\ \A l \in Cycles :
        (BatchJoined(l) /\ \A u \in UnitsOf(l) : AcceptedAtOnceWithID(umsg[u])) =>
            \A u \in UnitsOf(l) :
                /\ upc[u] = "succeeded"
                /\ status[umsg[u]] = MessageStatusSent \/ sentWriteFailed[umsg[u]]
                /\ cacheWrites[umsg[u]] = 1
                /\ cacheEntries[umsg[u]] <= 1
    /\ \A u \in Units :
        (upc[u] = "backoff" /\ attempts[umsg[u]] = 1) => ~gotAccepted[umsg[u]]

\* a pass over two messages has ended, both accepted at once with a messageId,
\* both sent, with one cache entry each
C14_Witness ==
    \E l \in Cycles :
        /\ BatchJoined(l)
        /\ Cardinality({umsg[u] : u \in UnitsOf(l)}) = fetchLimit
        /\ \A u \in UnitsOf(l) :
             /\ AcceptedAtOnceWithID(umsg[u])
             /\ status[umsg[u]] = MessageStatusSent
             /\ cacheEntries[umsg[u]] = 1

\* loop l's FetchUnsent returns an error in this step
FetchFails(l) == lpc[l] = "process" /\ lpc'[l] = "join" /\ nstoreErrors' = nstoreErrors + 1

\* C15: when FetchUnsent returns an error the pass is skipped: no Delivery
\* Unit is started and nothing is written to the store or the cache; the loop
\* stays alive, goes on to its select, where it waits with its ticker armed
\* (or takes a tick that has fired already) and exits only on a cancelled
\* context; a tick that finds the loop waiting starts a pass.
C15_FetchErrorSkipsPass ==
    [][\A l \in Cycles :
         /\ FetchFails(l) =>
              /\ UNCHANGED <<units, store, history>>
              /\ JoinReady(l)'
         /\ (lpc[l] = "join" /\ lpc'[l] = "exited") => lctx'[l] \in cancelled
         /\ lpc'[l] = "blocked" => (ticker'[l] = "on" /\ lctx'[l] \notin cancelled)
         /\ (lpc[l] = "blocked" /\ lpc'[l] # "blocked") =>
              \/ lpc'[l] = "process" /\ nticks' = nticks + 1
              \/ lpc'[l] = "exited" /\ lctx[l] \in cancelled']_vars

\* the first pass of the only loop was skipped on a fetch error (the one store
\* error was no status write), and after a tick the loop is in a pass with a
\* unit started
C15_Witness ==
    /\ ncycles = 1
    /\ nstoreErrors = 1
    /\ \A m \in Msgs : ~storeWritten[m]
    /\ nticks = 1
    /\ lpc[1] = "join"
    /\ \E u \in UnitsOf(1) : upc[u] # "idle"

\* C16: a polling loop has terminated only if Stop() has cancelled its run
\* cycle, whatever fetch errors, delivery failures, store-write errors and
\* cache errors occurred: a loop ends in its select only, on a cancelled
\* context.
C16_LoopExitsOnlyAfterStop ==
    [][\A l \in Cycles :
         (lpc'[l] = "exited" /\ lpc[l] # "exited") =>
            /\ l \in cancelled'
            /\ cancelCalls' >= 1
            /\ lpc[l] \in {"join", "blocked"}
            /\ lctx'[l] \in cancelled']_vars

\* delivery failures and a store error have occurred, the loop was still
\* alive after them, and it has exited after the Stop()
C16_Witness ==
    /\ ncycles = 1
    /\ nfailures = MaxFailures
    /\ nstoreErrors = MaxStoreErrors
    /\ lpc[1] = "exited"
    /\ cancelCalls = 1

\* C17 (as claimed): while the scheduler is stopped, from the return of Stop()
\* (or from construction) to the next Start(), no attempt is accepted and no
\* message status changes.
C17_NothingDeliveredWhileStopped ==
    [][(~isRunning /\ ~isRunning') =>
          /\ gotAccepted' = gotAccepted
          /\ status' = status]_vars

\* C18: a loop launched by Start() begins with a processing pass, and it has
\* no ticker, waits on no tick and consumes no tick until that pass (fetch,
\* fan-out, join) has returned.
C18_PassBeforeFirstTick ==
    [][\A l \in Cycles :
         /\ (lpc[l] = "none" /\ lpc'[l] # "none") => (lpc'[l] = "process" /\ ticker'[l] = "off")
         /\ (ticker[l] = "off" /\ lpc[l] = "process") => (ticker'[l] = "off" /\ lpc'[l] \in {"process", "join"})
         /\ (ticker[l] = "off" /\ ticker'[l] # "off") => (lpc[l] = "join" /\ JoinReady(l))
         /\ (lpc'[l] = "blocked" /\ lpc[l] # "blocked") => (lpc[l] = "join" /\ JoinReady(l))]_vars

\* a loop has made its first pass, in which a message was attempted, and now
\* waits for its first tick
C18_Witness ==
    \E l \in Cycles :
        /\ lpc[l] = "blocked"
        /\ nticks = 0
        /\ \E m \in Msgs : attempts[m] >= 1

\* C19 (as claimed): a loop that has reached its select issues no further
\* fetch once the context its select waits on is cancelled, even when a tick
\* is pending too.
C19_NoPassAfterCancel ==
    [][\A l \in Cycles :
         (lpc[l] = "process" /\ lpc'[l] = "join" /\ ticker[l] # "off") =>
            lctx[l] \notin cancelled]_vars

\* C20: Stop() does not wait for the loop or the units, and s.mu is held by
\* no task that is in a network call, a backoff wait, a timer wait or the
\* join: in every state, whatever the loops and units are doing, the mutex is
\* unlocked and a Stop() and a Start() can run to completion (a Start() that
\* creates a context, while the model has contexts left).
C20_LifecycleNeverBlocks ==
    /\ mu = "unlocked"
    /\ ENABLED Stop
    /\ (isRunning \/ ncycles < MaxCycles) => ENABLED Start

\* Stop() has returned while a unit of the cycle it cancelled is still in its
\* network call and the loop is still in its join
C20_Witness ==
    /\ ~isRunning
    /\ mu = "unlocked"
    /\ \E u \in Units :
          /\ upc[u] = "calling"
          /\ uctx[u] \in cancelled
          /\ lpc[u[1]] = "join"

\* C21 (as claimed): every read of s.ctx by a loop or by a Delivery Unit is
\* made under s.mu, serialised with the writes of Start(): the value a loop's
\* select reads and the value a unit is started with is the value s.ctx holds
\* at that moment.
C21_ReadsSeeCurrentContext ==
    [][/\ \A l \in Cycles : lctx'[l] # lctx[l] => lctx'[l] = ctx
       /\ \A u \in Units : (upc[u] = "spawned" /\ uctx'[u] # 0) => uctx'[u] = ctx]_vars

\* ==== a store with more pending rows than a pass fetches ====================
\* The store holds three pending messages, one of them within the length
\* limit. As in InitBatch the Scheduler has been through one run cycle, whose
\* only pass was skipped because FetchUnsent returned an error.
LiveMsgs == 1..NumLiveMsgs

LiveContentLengths ==
    {f \in [LiveMsgs -> {maxMessageLength, maxMessageLength + 1}] :
        Cardinality({m \in LiveMsgs : f[m] <= maxMessageLength}) = 1}

InitLive ==
    /\ isRunning = FALSE
    /\ ctx = 1
    /\ cancel = 1
    /\ cancelled = {1}
    /\ cancelCalls = 1
    /\ ncycles = 1
    /\ mu = "unlocked"
    /\ startCalls = 1
    /\ stopCalls = 1
    /\ lpc = [l \in Cycles |-> IF l = 1 THEN "exited" ELSE "none"]
    /\ lctx = [l \in Cycles |-> IF l = 1 THEN 1 ELSE 0]
    /\ ticker = [l \in Cycles |-> "off"]
    /\ nticks = 0
    /\ upc = [u \in Units |-> "idle"]
    /\ umsg = [u \in Units |-> 0]
    /\ uctx = [u \in Units |-> 0]
    /\ uatt = [u \in Units |-> 0]
    /\ uwaited = [u \in Units |-> 0]
    /\ contentLen \in LiveContentLengths
    /\ status = [m \in LiveMsgs |-> MessageStatusPending]
    /\ sentAt = [m \in LiveMsgs |-> FALSE]
    /\ attempts = [m \in LiveMsgs |-> 0]
    /\ gotAccepted = [m \in LiveMsgs |-> FALSE]
    /\ gotID = [m \in LiveMsgs |-> FALSE]
    /\ everSent = [m \in LiveMsgs |-> FALSE]
    /\ sentWriteFailed = [m \in LiveMsgs |-> FALSE]
    /\ storeWritten = [m \in LiveMsgs |-> FALSE]
    /\ cacheEntries = [m \in LiveMsgs |-> 0]
    /\ cacheWrites = [m \in LiveMsgs |-> 0]
    /\ nfailures = 0
    /\ nstoreErrors = 1

\* the ticker of a live loop fires every SendInterval for as long as the loop
\* lives: the ticks that follow the MaxTicks counted ones
TickAgain(l) ==
    /\ ticker[l] = "on"
    /\ nticks = MaxTicks
    /\ IF lpc[l] = "blocked"
         THEN /\ lpc' = [lpc EXCEPT ![l] = "process"]
              /\ UNCHANGED ticker
         ELSE /\ ticker' = [ticker EXCEPT ![l] = "tick"]
              /\ UNCHANGED lpc
    /\ UNCHANGED <<lctx, nticks>>
    /\ UNCHANGED <<lifecycle, calls, units, store, history, faults>>

NextLive ==
    \/ Next
    \/ \E l \in Cycles : TickAgain(l)

\* the Go scheduler runs every goroutine that can take a step: the loop and
\* the units go on; the ticker fires every SendInterval; s.client.Do returns
\* (http.Client.Timeout) and so does time.After(delay). No call of Start() or
\* Stop() is ever bound to come.
Fairness ==
    /\ \A l \in Cycles :
         /\ WF_vars(ProcessFetch(l))
         /\ WF_vars(SelectBlock(l) \/ SelectTick(l) \/ SelectDone(l))
         /\ WF_vars(Tick(l) \/ TickAgain(l))
    /\ \A u \in Units :
         /\ WF_vars(UnitBegin(u))
         /\ WF_vars(UnitResponse(u))
         /\ WF_vars(UnitCache(u))
         /\ WF_vars(BackoffElapsed(u))

SpecLive == InitLive /\ [][NextLive]_vars /\ Fairness

\* C22 (as claimed): while the scheduler stays running and its ticker keeps
\* firing, a pending message whose content is within the length limit is
\* eventually given a delivery attempt, whatever else the store holds.
C22_PendingIsEventuallyAttempted ==
    \A m \in LiveMsgs :
        (isRunning /\ status[m] = MessageStatusPending /\ ~TooLong(m))
            ~> (attempts[m] >= 1 \/ ~isRunning)

\* C23 (as claimed): in every reachable state the sent timestamp of a message
\* is null unless the status of the message is sent.
C23_TimestampOnlyWhenSent == \A m \in Msgs : sentAt[m] => status[m] = MessageStatusSent

\* C23 (amended): the sent timestamp of a message is null exactly as long as
\* the message is pending: it is set, together with the status, by the write
\* of either terminal status, sent or failed.
C23_TimestampIffNotPending ==
    \A m \in Msgs :
        /\ sentAt[m] <=> status[m] # MessageStatusPending
        /\ sentAt[m] => storeWritten[m]

\* a message has been marked failed and carries a timestamp
C23_Witness == \E m \in Msgs : status[m] = MessageStatusFailed /\ sentAt[m]

\* C24: when an attempt is accepted with a parseable body and the MarkAsSent
\* write fails, the unit still ends as a success: it changes no status, makes
\* no further attempt, waits no backoff and never calls MarkAsFailed, and it
\* goes on to the cache write when the body carries a messageId.
C24_FailedMarkSentIsStillSuccess ==
    [][\A u \in Units :
         /\ (/\ upc[u] = "calling" /\ upc'[u] # "calling"
             /\ ~sentWriteFailed[umsg[u]] /\ sentWriteFailed'[umsg[u]]) =>
              /\ upc'[u] \in {"cache", "succeeded"}
              /\ gotAccepted'[umsg[u]]
              /\ status' = status
              /\ attempts' = attempts
              /\ uatt'[u] = 0 /\ uwaited'[u] = 0
              /\ (gotID'[umsg[u]] /\ ~gotID[umsg[u]]) => upc'[u] = "cache"
              /\ ~gotID'[umsg[u]] => upc'[u] = "succeeded"
         /\ (upc[u] = "cache" /\ upc'[u] # "cache") =>
              /\ upc'[u] = "succeeded"
              /\ cacheWrites'[umsg[u]] = Count(cacheWrites[umsg[u]], EntriesCap)
              /\ status' = status
              /\ attempts' = attempts
         /\ (upc[u] = "succeeded" /\ upc'[u] # "succeeded") =>
              /\ upc'[u] = "idle"
              /\ status' = status
              /\ attempts' = attempts]_vars

\* a unit has ended as a success after one attempt and one cache write,
\* although its MarkAsSent failed: its message is still pending
C24_Witness ==
    \E u \in Units :
        /\ upc[u] = "succeeded"
        /\ sentWriteFailed[umsg[u]]
        /\ status[umsg[u]] = MessageStatusPending
        /\ attempts[umsg[u]] = 1
        /\ cacheWrites[umsg[u]] = 1

\* C25: a cache write is made only by a unit whose attempt was accepted with
\* a parseable body carrying a messageId, after its MarkAsSent was issued, and
\* once per unit; an attempt that is rejected, fails in transport or cannot be
\* parsed writes nothing to the cache; and a cache write, failing or not,
\* changes no status and leaves the unit a success.
C25_CacheWriteOnlyAfterAcceptedWithID ==
    [][/\ (cacheWrites' # cacheWrites \/ cacheEntries' # cacheEntries) =>
             \E u \in Units : upc[u] = "cache" /\ upc'[u] # "cache"
       /\ \A u \in Units :
            /\ (upc'[u] = "cache" /\ upc[u] # "cache") =>
                 /\ upc[u] = "calling"
                 /\ nfailures' = nfailures
                 /\ gotAccepted'[umsg[u]] /\ gotID'[umsg[u]]
                 /\ storeWritten'[umsg[u]]
                 /\ cacheWrites' = cacheWrites /\ cacheEntries' = cacheEntries
            /\ (upc[u] = "calling" /\ upc'[u] # "calling" /\ nfailures' # nfailures) =>
                 /\ upc'[u] \notin {"cache", "succeeded"}
                 /\ cacheWrites' = cacheWrites /\ cacheEntries' = cacheEntries
            /\ (upc[u] = "cache" /\ upc'[u] # "cache") =>
                 /\ upc'[u] = "succeeded"
                 /\ cacheWrites'[umsg[u]] = Count(cacheWrites[umsg[u]], EntriesCap)
                 /\ cacheEntries'[umsg[u]] \in {cacheEntries[umsg[u]], Count(cacheEntries[umsg[u]], EntriesCap)}
                 /\ \A m \in Msgs \ {umsg[u]} :
                      cacheWrites'[m] = cacheWrites[m] /\ cacheEntries'[m] = cacheEntries[m]
                 /\ status' = status
                 /\ storeWritten' = storeWritten]_vars

\* a unit has ended as a success and its message is sent, although its one
\* cache write failed
C25_Witness ==
    \E u \in Units :
        /\ upc[u] = "succeeded"
        /\ status[umsg[u]] = MessageStatusSent
        /\ cacheWrites[umsg[u]] = 1
        /\ cacheEntries[umsg[u]] = 0
        /\ nfailures >= 1

\* C26: a pass starts one Delivery Unit per fetched message, each for a
\* different pending message, at most 2 per pass (as many as there are pending
\* messages, up to 2, or none when the fetch failed); the pass returns only
\* when every one of them has ended; and a loop that is not inside a pass
\* (waiting in its select, or exited) has no unit.
C26_PassJoinsAllItsUnits ==
    [][\A l \in Cycles :
         LET started == {u \in UnitsOf(l) : upc'[u] = "spawned"} IN
         /\ (lpc[l] = "process" /\ lpc'[l] = "join") =>
              /\ \A u \in UnitsOf(l) : upc[u] = "idle"
              /\ Cardinality(started) \in {0, Min(fetchLimit, Cardinality(PendingMsgs))}
              /\ Cardinality(started) <= 2
              /\ \A u \in started : umsg'[u] \in PendingMsgs
              /\ \A u, v \in started : umsg'[u] = umsg'[v] => u = v
              /\ \A u \in UnitsOf(l) \ started : upc'[u] = "idle"
         /\ (lpc[l] = "join" /\ lpc'[l] # "join") =>
              \A u \in UnitsOf(l) :
                 upc[u] \in {"idle", "skipped", "succeeded", "failed", "abandoned"}
         /\ lpc'[l] # "join" => \A u \in UnitsOf(l) : upc'[u] = "idle"]_vars

\* a loop waits in its select after a pass of two units, one per message,
\* which have both made an attempt and ended
C26_Witness ==
    \E l \in Cycles :
        /\ lpc[l] = "blocked"
        /\ \A u \in UnitsOf(l) : upc[u] = "idle"
        /\ \A m \in Msgs : attempts[m] >= 1
        /\ nticks = 0

\* C27: within one Delivery Unit the attempts are issued with the indices 0,
\* 1, 2 in that order and never a fourth; an attempt after the first is issued
\* only from the backoff that followed a failed attempt, when its delay has
\* elapsed; and a unit whose attempt succeeded, or which wrote a status, or
\* which was abandoned, issues no attempt any more.
C27_AttemptsInOrder ==
    [][/\ \A u \in Units :
         /\ uatt'[u] \in 0..(maxRetries - 1)
         /\ (upc'[u] = "calling" /\ upc[u] # "calling") =>
              \/ upc[u] = "spawned" /\ uatt'[u] = 0
              \/ /\ upc[u] = "backoff"
                 /\ uatt'[u] = uatt[u] + 1
                 /\ uwaited'[u] = uwaited[u] + Delay(uatt[u])
                 /\ attempts[umsg[u]] >= uatt'[u]
         /\ (upc'[u] = "backoff" /\ upc[u] # "backoff") =>
              /\ upc[u] = "calling"
              /\ nfailures' = nfailures + 1
              /\ uatt'[u] = uatt[u]
              /\ uatt[u] < maxRetries - 1
              /\ status' = status
         /\ upc[u] = "spawned" => uatt[u] = 0
         /\ upc[u] = "cache" => upc'[u] \in {"cache", "succeeded"}
         /\ upc[u] \in {"skipped", "succeeded", "failed", "abandoned"} =>
              upc'[u] \in {upc[u], "idle"}
         /\ (upc[u] = upc'[u] /\ upc[u] \notin {"spawned", "backoff"}) => uatt'[u] = uatt[u]
       /\ \A m \in Msgs :
            attempts'[m] # attempts[m] =>
               \E v \in Units :
                  /\ umsg[v] = m
                  /\ upc[v] \in {"spawned", "backoff"}
                  /\ upc'[v] # upc[v]]_vars

\* a unit is in its third attempt, issued after the backoffs that followed
\* its first and its second failed attempt
C27_Witness ==
    \E u \in Units :
        /\ upc[u] = "calling"
        /\ uatt[u] = 2
        /\ uwaited[u] = Delay(0) + Delay(1)
        /\ attempts[umsg[u]] = 3
        /\ nfailures >= 2

\* C28 (as claimed): no message is handled by two Delivery Units at the same
\* time: two units that have been started and have not ended work on
\* different messages, and no fetch returns a message a unit is working on.
C28_OneUnitPerMessage ==
    [][/\ \A u, v \in InFlight' : umsg'[u] = umsg'[v] => u = v
       /\ \A l \in Cycles :
            (lpc[l] = "process" /\ lpc'[l] = "join") =>
               \A u \in UnitsOf(l) :
                  upc'[u] = "spawned" => \A v \in InFlight : umsg[v] # umsg'[u]]_vars

\* C29: every Delivery Unit that was started eventually ends (sent, failed,
\* skipped or abandoned), given that every delivery call and every backoff
\* wait returns, and every pass eventually completes its join, whether or not
\* the run cycle is cancelled meanwhile.
C29_UnitsAndPassesEnd ==
    /\ \A u \in Units :
         (upc[u] \in {"spawned", "calling", "backoff", "cache"})
            ~> (upc[u] \in {"skipped", "succeeded", "failed", "abandoned"})
    /\ \A l \in Cycles : (lpc[l] = "join") ~> (lpc[l] \in {"blocked", "process", "exited"})

\* the loop of a cancelled run cycle has completed its join and exited after
\* a pass in which a unit made an attempt
C29_Witness ==
    \E l \in Cycles :
        /\ lpc[l] = "exited"
        /\ l \in cancelled
        /\ \A u \in UnitsOf(l) : upc[u] = "idle"
        /\ \E m \in LiveMsgs : attempts[m] >= 2

\* C30: whenever s.mu is free, the run flag and the cancellation handle
\* agree: isRunning is true if and only if a current run-cycle context exists
\* and is not cancelled, and s.cancel is the handle of that context.
C30_FlagAgreesWithContext ==
    mu = "unlocked" =>
        /\ isRunning <=> (ctx # 0 /\ ctx \notin cancelled)
        /\ cancel = ctx
        /\ ctx = ncycles
        /\ cancelCalls = Cardinality(cancelled)

\* the scheduler is running its second run cycle: the first context is
\* cancelled, the current one is not
C30_Witness ==
    /\ mu = "unlocked"
    /\ isRunning
    /\ ctx = 2
    /\ cancelled = {1}

\* C31 (as claimed): after a Stop() that cancels a running cycle, the loop of
\* that cycle finishes at most the pass it is in and exits: when it comes to
\* its select with its cycle cancelled it leaves run(), issuing no further
\* fetch, whether or not Start() has been called again.
C31_CancelledLoopExitsAfterItsPass ==
    [][\A l \in Cycles :
         /\ (lpc[l] = "join" /\ lpc'[l] # "join" /\ l \in cancelled) => lpc'[l] = "exited"
         /\ (lpc[l] = "blocked" /\ l \in cancelled) => lpc'[l] \in {"blocked", "exited"}]_vars

====
